---- MODULE Spec2Model ----
(***************************************************************************)
(* Model of extract_sleep_data.py: one run of main() over an Apple Health  *)
(* export, step by step, followed by optional re-runs on the same input.   *)
(*                                                                         *)
(* Texts that the program inspects character by character (the type and    *)
(* value attributes) are sequences of one-character strings.  Datetime     *)
(* texts are sequences of lexical tokens (date, separator, time, offset),  *)
(* the granularity at which the two strptime formats differ.  Cells of the *)
(* CSV file and console lines are TLA+ strings.                            *)
(***************************************************************************)
EXTENDS Integers, Sequences, FiniteSets, TLC

VARIABLES
    input,      \* the file export.xml: [exists, wellFormed, children]
    outFile,    \* the file sleep_data.csv: [exists, lines]
    pc,         \* position of main(): start, open, loop, done, or the exception raised
    root,       \* root.findall("Record"), the list the for loop iterates
    i,          \* index in root of the next record of the for loop
    written,    \* local variable written
    skipped,    \* local variable skipped
    console,    \* lines printed by the current run
    prevOut,    \* history: outFile as it was when the current run started
    rerun       \* history: TRUE once main() has been started again

vars == <<input, outFile, pc, root, i, written, skipped, console, prevOut, rerun>>

----------------------------------------------------------------------------
(* Bounds of the model *)

MaxRecords == 3         \* children of the root in the documents of Spec
MaxDateRecords == 2     \* children of the root in the documents of SpecDates
MaxChunks == 3          \* pieces a value attribute of SpecValue is made of

----------------------------------------------------------------------------
(* Program constants *)

PREFIX == <<"H", "K", "C", "a", "t", "e", "g", "o", "r", "y", "V", "a", "l", "u", "e", "S", "l", "e", "e", "p", "A", "n", "a", "l", "y", "s", "i", "s">>

SUFFIX == <<"S", "l", "e", "e", "p", "A", "n", "a", "l", "y", "s", "i", "s">>

Header == <<"StartDate", "EndDate", "DurationMinutes", "Value">>

\* The two strptime formats, as sequences of directives and literals.
Formats ==
    << <<"%Y-%m-%d", " ", "%H:%M:%S", " ", "%z">>,
       <<"%Y-%m-%d", "T", "%H:%M:%S", "%z">> >>

----------------------------------------------------------------------------
(* Generic text helpers *)

RECURSIVE Join(_)
\* the TLA+ string spelled by a sequence of strings
Join(s) == IF s = <<>> THEN "" ELSE Head(s) \o Join(Tail(s))

IsSpace(c) == c \in {" ", "\t", "\n", "\r"}

\* str.startswith at offset k (1-based): old occurs in s at position k
OccursAt(s, old, k) ==
    /\ k + Len(old) - 1 <= Len(s)
    /\ \A j \in 1..Len(old) : s[k + j - 1] = old[j]

\* variant: the test is made at the start of the text (str.startswith)
startswith(s, suffix) ==
    /\ Len(suffix) <= Len(s)
    /\ OccursAt(s, suffix, 1)

\* str.endswith
endswith(s, suffix) ==
    /\ Len(suffix) <= Len(s)
    /\ OccursAt(s, suffix, Len(s) - Len(suffix) + 1)

RECURSIVE ReplaceFrom(_, _, _)
\* str.replace(old, ""): scan left to right, drop each match and resume after it
ReplaceFrom(s, old, k) ==
    IF k > Len(s) THEN <<>>
    ELSE IF OccursAt(s, old, k) THEN ReplaceFrom(s, old, k + Len(old))
    ELSE <<s[k]>> \o ReplaceFrom(s, old, k + 1)

RECURSIVE lstrip(_)
\* str.lstrip(): drop leading whitespace
lstrip(s) ==
    IF s # <<>> /\ IsSpace(Head(s)) THEN lstrip(Tail(s)) ELSE s

\* variant: only a literal at the very start is removed (str.removeprefix)
simplify_value_removeprefix(value) ==
    lstrip(IF OccursAt(value, PREFIX, 1)
           THEN SubSeq(value, Len(PREFIX) + 1, Len(value)) ELSE value)

simplify_value(value) == lstrip(ReplaceFrom(value, PREFIX, 1))

\* dict.get(key, default)
AttribGet(attrib, key, default) ==
    IF key \in DOMAIN attrib THEN attrib[key] ELSE default

----------------------------------------------------------------------------
(* Datetimes *)

\* Numeric value of the date, time and offset tokens the model uses.
DayNumber == [d \in {"2023-01-01", "2023-01-02"} |->
                IF d = "2023-01-01" THEN 0 ELSE 1]

SecondOfDay == [t \in {"23:00:00", "07:15:30"} |->
                IF t = "23:00:00" THEN 82800 ELSE 26130]

OffsetSeconds == [z \in {"-0800", "+0100"} |->
                IF z = "-0800" THEN 0 - 28800 ELSE 3600]

\* datetime.isoformat() writes the offset with a colon
OffsetIso == [z \in {"-0800", "+0100"} |->
                IF z = "-0800" THEN "-08:00" ELSE "+01:00"]

\* one token of the text against one element of the format
MatchesDirective(tok, dir) ==
    CASE dir = "%Y-%m-%d" -> tok \in DOMAIN DayNumber
      [] dir = "%H:%M:%S" -> tok \in DOMAIN SecondOfDay
      [] dir = "%z"       -> tok \in DOMAIN OffsetSeconds
      [] dir = " "        -> tok = " "
      [] OTHER            -> tok = dir

\* datetime.strptime(dt_str, fmt) does not raise ValueError
StrptimeOk(dt_str, fmt) ==
    /\ Len(dt_str) = Len(fmt)
    /\ \A k \in 1..Len(fmt) : MatchesDirective(dt_str[k], fmt[k])

\* the aware datetime strptime returns; the fields sit at the directive's place
StrptimeValue(dt_str, fmt) ==
    LET at(dir) == dt_str[CHOOSE k \in 1..Len(fmt) : fmt[k] = dir]
    IN  [date |-> at("%Y-%m-%d"), time |-> at("%H:%M:%S"), tz |-> at("%z")]

\* parse_apple_datetime: the first format that parses, else ValueError
parse_apple_datetime(dt_str) ==
    IF StrptimeOk(dt_str, Formats[1])
        THEN [ok |-> TRUE, dt |-> StrptimeValue(dt_str, Formats[1])]
    ELSE IF StrptimeOk(dt_str, Formats[2])
        THEN [ok |-> TRUE, dt |-> StrptimeValue(dt_str, Formats[2])]
    ELSE [ok |-> FALSE, dt |-> [date |-> "", time |-> "", tz |-> ""]]

\* seconds since the first modelled day 00:00 UTC
UtcSeconds(dt) ==
    DayNumber[dt.date] * 86400 + SecondOfDay[dt.time] - OffsetSeconds[dt.tz]

\* (end - start).total_seconds() of two aware datetimes
total_seconds(end, start) == UtcSeconds(end) - UtcSeconds(start)

isoformat(dt) == dt.date \o "T" \o dt.time \o OffsetIso[dt.tz]

\* round(seconds / 60, 2), in hundredths of a minute: 5s/3 is never halfway
\* between two integers, so the nearest integer is floor(5s/3 + 1/2)
RoundedHundredths(seconds) == (10 * seconds + 3) \div 6

\* what csv.writer writes for the float h/100 (repr of the float)
FloatStr(h) ==
    LET a == IF h < 0 THEN 0 - h ELSE h
        frac == a % 100
    IN  (IF h < 0 THEN "-" ELSE "") \o ToString(a \div 100) \o "." \o
        (IF frac % 10 = 0 THEN ToString(frac \div 10)
         ELSE IF frac < 10 THEN "0" \o ToString(frac)
         ELSE ToString(frac))

----------------------------------------------------------------------------
(* Input documents *)

SleepType == <<"H", "K", "C", "a", "t", "e", "g", "o", "r", "y", "T", "y", "p", "e", "I", "d", "e", "n", "t", "i", "f", "i", "e", "r", "S", "l", "e", "e", "p", "A", "n", "a", "l", "y", "s", "i", "s">>

GoalType == <<"S", "l", "e", "e", "p", "A", "n", "a", "l", "y", "s", "i", "s", "G", "o", "a", "l">>

ChunkL == <<"H", "K", "C", "a", "t", "e", "g", "o", "r", "y", "V", "a", "l", "u", "e", "S", "l", "e", "e", "p">>

ChunkR == <<"A", "n", "a", "l", "y", "s", "i", "s">>

AsleepValue == PREFIX \o <<"A", "s", "l", "e", "e", "p">>

\* datetime texts: first format, second format, and two that fit neither
DateA == <<"2023-01-01", " ", "23:00:00", " ", "-0800">>
DateB == <<"2023-01-02", "T", "07:15:30", "+0100">>
DateJunk == <<"not-a-date">>
DateMixed == <<"2023-01-01", "T", "23:00:00", " ", "-0800">>

\* An attribute that may be absent is <<>> (absent) or <<text>> (present).
Attr(name, opt) == IF opt = <<>> THEN <<>> ELSE name :> opt[1]

Element(tag, t, s, e, v) ==
    [tag |-> tag,
     attrib |-> Attr("type", t) @@ Attr("startDate", s) @@
                Attr("endDate", e) @@ Attr("value", v)]

RecordsOf(T, S, E, V) ==
    {Element("Record", t, s, e, v) : t \in T, s \in S, e \in E, v \in V}

Types == {<<>>, <<SleepType>>, <<GoalType>>}

\* a child of the root that is no Record, with the attributes of a good record
WorkoutElement == Element("Workout", <<SleepType>>, <<DateA>>, <<DateB>>, <<AsleepValue>>)

Elements ==
    RecordsOf(Types, {<<DateA>>, <<DateB>>, <<DateJunk>>}, {<<DateA>>}, {<<AsleepValue>>})
    \cup {WorkoutElement}

DateElements ==
    RecordsOf(Types, {<<>>, <<DateA>>, <<DateB>>, <<DateJunk>>},
              {<<>>, <<DateA>>, <<DateB>>, <<DateMixed>>}, {<<>>})

RECURSIVE Flatten(_)
Flatten(chunks) == IF chunks = <<>> THEN <<>> ELSE Head(chunks) \o Flatten(Tail(chunks))

SeqsUpTo(S, n) == UNION {[1..k -> S] : k \in 0..n}

ValueTexts == {Flatten(cs) : cs \in SeqsUpTo({PREFIX, ChunkL, ChunkR, <<" ">>}, MaxChunks)}

ValueElements ==
    RecordsOf({<<SleepType>>, <<GoalType>>}, {<<DateA>>, <<DateJunk>>}, {<<DateB>>},
              {<<>>} \cup {<<v>> : v \in ValueTexts})

\* sleep_data.csv before the first run: absent, or left by an earlier run
NoFile == [exists |-> FALSE, lines |-> <<>>]
StaleFile == [exists |-> TRUE,
              lines |-> <<Header, <<"2020-05-05T22:00:00+00:00",
                                    "2020-05-06T06:00:00+00:00", "480.0", "InBed">> >>]

----------------------------------------------------------------------------
(* The program *)

Message(kind, n, text) == [kind |-> kind, n |-> n, text |-> text]

\* root.findall("Record"): the children with that tag, in document order
findall(children, tag) == SelectSeq(children, LAMBDA el : el.tag = tag)

\* variant: the suffix may occur anywhere in the type ("SleepAnalysis" in type)
IsSleepRecordContains(record) ==
    LET t == AttribGet(record.attrib, "type", <<>>)
    IN  \E k \in 1..Len(t) : OccursAt(t, SUFFIX, k)

\* line 58: the filter on the type attribute
IsSleepRecord(record) == endswith(AttribGet(record.attrib, "type", <<>>), SUFFIX)

\* lines 61-64: the try block; the first failure is the exception raised
ParseDates(record) ==
    IF "startDate" \notin DOMAIN record.attrib
        THEN [ok |-> FALSE, cause |-> "'startDate'"]
    ELSE IF ~parse_apple_datetime(record.attrib["startDate"]).ok
        THEN [ok |-> FALSE,
              cause |-> "Unrecognised datetime: " \o Join(record.attrib["startDate"])]
    ELSE IF "endDate" \notin DOMAIN record.attrib
        THEN [ok |-> FALSE, cause |-> "'endDate'"]
    ELSE IF ~parse_apple_datetime(record.attrib["endDate"]).ok
        THEN [ok |-> FALSE,
              cause |-> "Unrecognised datetime: " \o Join(record.attrib["endDate"])]
    ELSE [ok |-> TRUE, cause |-> ""]

\* lines 69-78: the row written for a record whose dates parse
RowOf(record) ==
    LET start == parse_apple_datetime(record.attrib["startDate"]).dt
        end == parse_apple_datetime(record.attrib["endDate"]).dt
        raw_value == AttribGet(record.attrib, "value", <<>>)
    IN  <<isoformat(start), isoformat(end),
          FloatStr(RoundedHundredths(total_seconds(end, start))),
          Join(simplify_value(raw_value))>>

InitOver(Documents, Priors) ==
    /\ input \in {[exists |-> FALSE, wellFormed |-> FALSE, children |-> <<>>],
                  [exists |-> TRUE, wellFormed |-> FALSE, children |-> <<>>]}
                 \cup {[exists |-> TRUE, wellFormed |-> TRUE, children |-> d] :
                         d \in Documents}
    /\ outFile \in Priors
    /\ prevOut = outFile
    /\ pc = "start"
    /\ root = <<>>
    /\ i = 1
    /\ written = 0
    /\ skipped = 0
    /\ console = <<>>
    /\ rerun = FALSE

Init == InitOver(SeqsUpTo(Elements, MaxRecords), {NoFile, StaleFile})

InitDates == InitOver(SeqsUpTo(DateElements, MaxDateRecords), {NoFile})

InitValue == InitOver({<<el>> : el \in ValueElements}, {NoFile})

\* lines 40-44: the input file is absent
InputMissing ==
    /\ pc = "start"
    /\ ~input.exists
    /\ pc' = "FileNotFoundError"
    /\ UNCHANGED <<input, outFile, root, i, written, skipped, console, prevOut, rerun>>

\* variant: the output is opened, and the header written, before ET.parse
InputMalformedAfterOpen ==
    /\ pc = "start"
    /\ input.exists
    /\ ~input.wellFormed
    /\ console' = Append(console, Message("Parsing", 0, ""))
    /\ outFile' = [exists |-> TRUE, lines |-> <<Header>>]
    /\ pc' = "ParseError"
    /\ UNCHANGED <<input, root, i, written, skipped, prevOut, rerun>>

\* lines 46-47: ET.parse raises on a document that is not well-formed
InputMalformed ==
    /\ pc = "start"
    /\ input.exists
    /\ ~input.wellFormed
    /\ console' = Append(console, Message("Parsing", 0, ""))
    /\ pc' = "ParseError"
    /\ UNCHANGED <<input, outFile, root, i, written, skipped, prevOut, rerun>>

\* lines 46-48: the document is loaded
ParseInput ==
    /\ pc = "start"
    /\ input.exists
    /\ input.wellFormed
    /\ console' = Append(console, Message("Parsing", 0, ""))
    /\ pc' = "open"
    /\ UNCHANGED <<input, outFile, root, i, written, skipped, prevOut, rerun>>

\* variant: the file is opened in append mode
OpenOutputAppend ==
    /\ pc = "open"
    /\ outFile' = [exists |-> TRUE, lines |-> Append(outFile.lines, Header)]
    /\ skipped' = 0
    /\ written' = 0
    /\ root' = findall(input.children, "Record")
    /\ i' = 1
    /\ pc' = "loop"
    /\ UNCHANGED <<input, console, prevOut, rerun>>

\* variant: the header is written only into a file that did not exist
OpenOutputHeaderOnce ==
    /\ pc = "open"
    /\ outFile' = [exists |-> TRUE,
                   lines |-> IF outFile.exists THEN <<>> ELSE <<Header>>]
    /\ skipped' = 0
    /\ written' = 0
    /\ root' = findall(input.children, "Record")
    /\ i' = 1
    /\ pc' = "loop"
    /\ UNCHANGED <<input, console, prevOut, rerun>>

\* lines 50-57: open "w" truncates, the header is written, the loop is set up
OpenOutput ==
    /\ pc = "open"
    /\ outFile' = [exists |-> TRUE, lines |-> <<Header>>]
    /\ skipped' = 0
    /\ written' = 0
    /\ root' = findall(input.children, "Record")
    /\ i' = 1
    /\ pc' = "loop"
    /\ UNCHANGED <<input, console, prevOut, rerun>>

\* lines 58-59: a record of another type
FilterOut ==
    /\ pc = "loop"
    /\ i <= Len(root)
    /\ ~IsSleepRecord(root[i])
    /\ i' = i + 1
    /\ UNCHANGED <<input, outFile, pc, root, written, skipped, console, prevOut, rerun>>

\* variant: each timestamp is tried on its own and each failure counted
SkipRecordPerTimestamp ==
    /\ pc = "loop"
    /\ i <= Len(root)
    /\ IsSleepRecord(root[i])
    /\ ~ParseDates(root[i]).ok
    /\ LET bad(name) == \/ name \notin DOMAIN root[i].attrib
                        \/ ~parse_apple_datetime(root[i].attrib[name]).ok
       IN  skipped' = skipped + (IF bad("startDate") THEN 1 ELSE 0)
                              + (IF bad("endDate") THEN 1 ELSE 0)
    /\ console' = Append(console, Message("Skipping", 0, ParseDates(root[i]).cause))
    /\ i' = i + 1
    /\ UNCHANGED <<input, outFile, pc, root, written, prevOut, rerun>>

\* lines 61-67: KeyError or ValueError in the try block
SkipRecord ==
    /\ pc = "loop"
    /\ i <= Len(root)
    /\ IsSleepRecord(root[i])
    /\ ~ParseDates(root[i]).ok
    /\ skipped' = skipped + 1
    /\ console' = Append(console, Message("Skipping", 0, ParseDates(root[i]).cause))
    /\ i' = i + 1
    /\ UNCHANGED <<input, outFile, pc, root, written, prevOut, rerun>>

\* variant: the new row is put right under the header
WriteRecordNewestFirst ==
    /\ pc = "loop"
    /\ i <= Len(root)
    /\ IsSleepRecord(root[i])
    /\ ParseDates(root[i]).ok
    /\ outFile' = [outFile EXCEPT !.lines =
                      <<Head(@), RowOf(root[i])>> \o Tail(@)]
    /\ written' = written + 1
    /\ i' = i + 1
    /\ UNCHANGED <<input, pc, root, skipped, console, prevOut, rerun>>

\* variant: a record that does not end after its start is skipped
WriteRecordRejectsNonPositive ==
    /\ pc = "loop"
    /\ i <= Len(root)
    /\ IsSleepRecord(root[i])
    /\ ParseDates(root[i]).ok
    /\ LET start == parse_apple_datetime(root[i].attrib["startDate"]).dt
           end == parse_apple_datetime(root[i].attrib["endDate"]).dt
       IN  IF total_seconds(end, start) > 0
           THEN /\ outFile' = [outFile EXCEPT !.lines = Append(@, RowOf(root[i]))]
                /\ written' = written + 1
                /\ skipped' = skipped
           ELSE /\ outFile' = outFile
                /\ written' = written
                /\ skipped' = skipped + 1
    /\ i' = i + 1
    /\ UNCHANGED <<input, pc, root, console, prevOut, rerun>>

\* lines 61-63, 69-79: the record is transformed and its row written
WriteRecord ==
    /\ pc = "loop"
    /\ i <= Len(root)
    /\ IsSleepRecord(root[i])
    /\ ParseDates(root[i]).ok
    /\ outFile' = [outFile EXCEPT !.lines = Append(@, RowOf(root[i]))]
    /\ written' = written + 1
    /\ i' = i + 1
    /\ UNCHANGED <<input, pc, root, skipped, console, prevOut, rerun>>

\* variant: the skipped line is printed unconditionally
FinishAlwaysReportsSkipped ==
    /\ pc = "loop"
    /\ i > Len(root)
    /\ console' = console \o <<Message("Finished", written, ""),
                               Message("Skipped", skipped, "")>>
    /\ pc' = "done"
    /\ UNCHANGED <<input, outFile, root, i, written, skipped, prevOut, rerun>>

\* lines 81-83: the file is closed and the summary printed
Finish ==
    /\ pc = "loop"
    /\ i > Len(root)
    /\ console' = Append(console, Message("Finished", written, "")) \o
                  (IF skipped # 0 THEN <<Message("Skipped", skipped, "")>> ELSE <<>>)
    /\ pc' = "done"
    /\ UNCHANGED <<input, outFile, root, i, written, skipped, prevOut, rerun>>

\* the script is started again (line 87); files persist, locals and output do not
Rerun ==
    /\ pc \in {"done", "FileNotFoundError", "ParseError"}
    /\ pc' = "start"
    /\ root' = <<>>
    /\ i' = 1
    /\ written' = 0
    /\ skipped' = 0
    /\ console' = <<>>
    /\ prevOut' = outFile
    /\ rerun' = TRUE
    /\ UNCHANGED <<input, outFile>>

\* one run of main()
Run ==
    \/ InputMissing
    \/ InputMalformed
    \/ ParseInput
    \/ OpenOutput
    \/ FilterOut
    \/ SkipRecord
    \/ WriteRecord
    \/ Finish

Next == Run \/ Rerun

Spec == Init /\ [][Next]_vars

\* a single run of main() over the documents of InitDates
SpecDates == InitDates /\ [][Run]_vars

SpecValue == InitValue /\ [][Next]_vars

----------------------------------------------------------------------------
(* Vocabulary of the properties, stated on the input document itself *)

\* the element's type attribute is present and ends with "SleepAnalysis"
TypeEndsWithSleepAnalysis(el) ==
    /\ "type" \in DOMAIN el.attrib
    /\ LET t == el.attrib["type"]
       IN  /\ Len(t) >= Len(SUFFIX)
           /\ SubSeq(t, Len(t) - Len(SUFFIX) + 1, Len(t)) = SUFFIX

\* the text has one of the two supported shapes
SupportedDatetime(text) ==
    \E d \in DOMAIN DayNumber, t \in DOMAIN SecondOfDay, z \in DOMAIN OffsetSeconds :
        \/ text = <<d, " ", t, " ", z>>
        \/ text = <<d, "T", t, z>>

BadTimestamp(el, name) ==
    \/ name \notin DOMAIN el.attrib
    \/ ~SupportedDatetime(el.attrib[name])

BadDates(el) == BadTimestamp(el, "startDate") \/ BadTimestamp(el, "endDate")

\* positions in the document of the Record children of the root
RecordIdx == {k \in 1..Len(input.children) : input.children[k].tag = "Record"}

\* those of them the loop has consumed when its index is i
ConsumedIdx == {k \in RecordIdx : Cardinality({j \in RecordIdx : j <= k}) < i}

SleepIdx(S) == {k \in S : TypeEndsWithSleepAnalysis(input.children[k])}

GoodIdx(S) == {k \in SleepIdx(S) : ~BadDates(input.children[k])}

\* the r-th smallest element of a set of positions
Nth(S, r) == CHOOSE k \in S : Cardinality({j \in S : j <= k}) = r

DataRows == Len(outFile.lines) - 1

InLoop == pc = "loop" /\ i <= Len(root)

Reported(kind, n) ==
    \E k \in 1..Len(console) : console[k].kind = kind /\ console[k].n = n

----------------------------------------------------------------------------
(* C1 *)

\* C1: while the loop runs and after it, written + skipped is the number of
\* sleep-analysis records consumed so far; on completion the data rows of the
\* file plus skipped is the number of Record children whose type ends with
\* "SleepAnalysis".
C1_Conservation ==
    /\ pc \in {"loop", "done"} =>
          written + skipped = Cardinality(SleepIdx(ConsumedIdx))
    /\ pc = "done" =>
          DataRows + skipped = Cardinality(SleepIdx(RecordIdx))

\* a finished run that wrote a row, skipped a record and filtered one out
C1_Witness ==
    /\ pc = "done"
    /\ written >= 1
    /\ skipped >= 1
    /\ \E k \in RecordIdx : ~TypeEndsWithSleepAnalysis(input.children[k])

----------------------------------------------------------------------------
(* C2 *)

\* C2: processing a sleep-analysis record with an absent or unsupported
\* startDate or endDate adds exactly one to skipped, writes nothing, leaves
\* written alone and moves the loop on to the next record.
C2_SkipIsLocal ==
    [][(InLoop /\ TypeEndsWithSleepAnalysis(root[i]) /\ BadDates(root[i])) =>
          /\ skipped' = skipped + 1
          /\ written' = written
          /\ outFile' = outFile
          /\ pc' = "loop"
          /\ i' = i + 1
          /\ root' = root]_vars

\* a record with both timestamps bad has just been skipped and the loop stands
\* at a following record
C2_Witness ==
    /\ InLoop
    /\ i > 1
    /\ TypeEndsWithSleepAnalysis(root[i - 1])
    /\ BadTimestamp(root[i - 1], "startDate")
    /\ BadTimestamp(root[i - 1], "endDate")
    /\ skipped = 1
    /\ DataRows = written

----------------------------------------------------------------------------
(* C3 *)

\* C3: the data rows are the rows of the consumed sleep-analysis records with
\* good timestamps, in document order.
C3_DocumentOrder ==
    pc \in {"loop", "done"} =>
        LET good == GoodIdx(ConsumedIdx)
        IN  /\ DataRows = Cardinality(good)
            /\ \A r \in 1..Cardinality(good) :
                  outFile.lines[r + 1] = RowOf(input.children[Nth(good, r)])

\* two different rows were written, with a skipped or filtered-out record
\* between their records
C3_Witness ==
    /\ pc = "done"
    /\ \E a, m, b \in RecordIdx :
          /\ a < m /\ m < b
          /\ {a, b} \subseteq GoodIdx(RecordIdx)
          /\ m \notin GoodIdx(RecordIdx)
          /\ RowOf(input.children[a]) # RowOf(input.children[b])
          /\ outFile.lines[2] = RowOf(input.children[a])
          /\ outFile.lines[3] = RowOf(input.children[b])

----------------------------------------------------------------------------
(* C4 *)

\* C4: processing a record whose type is absent or does not end with
\* "SleepAnalysis" changes neither counter, nor the file, nor the console.
C4_SilentExclusion ==
    [][(InLoop /\ ~TypeEndsWithSleepAnalysis(root[i])) =>
          /\ written' = written
          /\ skipped' = skipped
          /\ outFile' = outFile
          /\ console' = console
          /\ pc' = "loop"
          /\ i' = i + 1]_vars

\* a record without type and a record of another type, both with bad
\* timestamps, have been passed over
C4_Witness ==
    /\ pc = "loop"
    /\ i = 3
    /\ "type" \notin DOMAIN root[1].attrib
    /\ BadDates(root[1])
    /\ "type" \in DOMAIN root[2].attrib
    /\ ~TypeEndsWithSleepAnalysis(root[2])
    /\ BadDates(root[2])
    /\ written = 0
    /\ skipped = 0
    /\ outFile.lines = <<Header>>

----------------------------------------------------------------------------
(* C5 *)

\* C5 as stated: a finished run has reported written and skipped.
C5_BothAlwaysReported ==
    pc = "done" => Reported("Finished", written) /\ Reported("Skipped", skipped)

\* C5, amended: a finished run has reported written; it has reported skipped,
\* with the right count, exactly when skipped is not zero.
C5_SkippedReportedWhenNonzero ==
    pc = "done" =>
        /\ Reported("Finished", written)
        /\ (skipped # 0) <=> (\E k \in 1..Len(console) : console[k].kind = "Skipped")
        /\ \A k \in 1..Len(console) :
              console[k].kind = "Skipped" => console[k].n = skipped

\* a finished run that skipped nothing, and so printed no skipped line
C5_Witness ==
    /\ pc = "done"
    /\ skipped = 0
    /\ written >= 1
    /\ Reported("Finished", written)
    /\ ~\E k \in 1..Len(console) : console[k].kind = "Skipped"

----------------------------------------------------------------------------
(* C6 *)

\* C6: once the input is loaded and the output open, the file starts with the
\* header, no later line is the header, and the data rows number written.
C6_HeaderThenRows ==
    pc \in {"loop", "done"} =>
        /\ outFile.exists
        /\ Len(outFile.lines) >= 1
        /\ outFile.lines[1] = Header
        /\ \A k \in 2..Len(outFile.lines) : outFile.lines[k] # Header
        /\ DataRows = written

\* a finished run over records none of which matched: the header alone
C6_Witness ==
    /\ pc = "done"
    /\ Len(root) >= 2
    /\ SleepIdx(RecordIdx) = {}
    /\ outFile.lines = <<Header>>
    /\ prevOut = StaleFile

----------------------------------------------------------------------------
(* C7 *)

\* C7: a run on the input of the run before it ends with the file that run
\* left.
C7_Idempotent ==
    (rerun /\ pc = "done") => outFile = prevOut

\* a second run that wrote and skipped has finished
C7_Witness ==
    /\ rerun
    /\ pc = "done"
    /\ written >= 2
    /\ skipped >= 1
    /\ outFile = prevOut

----------------------------------------------------------------------------
(* C8 *)

RawValue == IF "value" \in DOMAIN root[1].attrib THEN root[1].attrib["value"] ELSE <<>>

\* positions where the literal occurs in the raw value
Occurrences ==
    {k \in 1..Len(RawValue) :
        /\ k + Len(PREFIX) - 1 <= Len(RawValue)
        /\ SubSeq(RawValue, k, k + Len(PREFIX) - 1) = PREFIX}

\* positions of the raw value that lie in no occurrence, ascending
KeptPositions ==
    LET occ == Occurrences
    IN  SelectSeq([j \in 1..Len(RawValue) |-> j],
                  LAMBDA j : ~\E k \in occ : k <= j /\ j < k + Len(PREFIX))

WithoutOccurrences == [n \in 1..Len(KeptPositions) |-> RawValue[KeptPositions[n]]]

\* the text from its first character that is no whitespace
FromFirstNonSpace(s) ==
    LET lead == {n \in 1..Len(s) : \A m \in 1..n : IsSpace(s[m])}
    IN  SubSeq(s, Cardinality(lead) + 1, Len(s))

----------------------------------------------------------------------------
(* C9 *)

\* C9: processing a sleep-analysis record whose timestamps both have a
\* supported shape writes its row and adds one to written, whatever the order
\* of the two instants; the duration cell is that of end minus start.
C9_NoOrderValidation ==
    [][(InLoop /\ TypeEndsWithSleepAnalysis(root[i]) /\ ~BadDates(root[i])) =>
          /\ written' = written + 1
          /\ skipped' = skipped
          /\ Len(outFile'.lines) = Len(outFile.lines) + 1
          /\ SubSeq(outFile'.lines, 1, Len(outFile.lines)) = outFile.lines
          /\ LET start == parse_apple_datetime(root[i].attrib["startDate"]).dt
                 end == parse_apple_datetime(root[i].attrib["endDate"]).dt
                 cell == outFile'.lines[Len(outFile.lines) + 1][3]
             IN  /\ cell = FloatStr(RoundedHundredths(UtcSeconds(end) - UtcSeconds(start)))
                 /\ UtcSeconds(end) = UtcSeconds(start) => cell = "0.0"
          /\ pc' = "loop"
          /\ i' = i + 1]_vars

\* a record with end = start and a record with end before start were both
\* written
C9_Witness ==
    /\ pc = "loop"
    /\ i = 3
    /\ written = 2
    /\ skipped = 0
    /\ root[1].attrib["startDate"] = root[1].attrib["endDate"]
    /\ outFile.lines[2][3] = "0.0"
    /\ root[2].attrib["startDate"] = DateA
    /\ root[2].attrib["endDate"] = DateB
    /\ outFile.lines[3][3] = "-44.5"

----------------------------------------------------------------------------
(* C10 *)

\* C10: before the input is loaded, and in a run that ended with either fatal
\* input failure, the output file is as it was when the run started.
C10_AbortLeavesOutput ==
    pc \in {"start", "FileNotFoundError", "ParseError"} => outFile = prevOut

\* a run aborted on a malformed document, and the file of an earlier run is
\* still there with its rows
C10_Witness ==
    /\ pc = "ParseError"
    /\ outFile = StaleFile
    /\ DataRows >= 1

====
